---- MODULE Spec2Model ----
(***************************************************************************)
(* order_genfile.py: reordering of the sample columns of a .gen file and   *)
(* of the matching .sample file.                                           *)
(*                                                                         *)
(* Text is modelled as a sequence of one-character strings; a file is a    *)
(* sequence of lines, each line holding its own line terminator, as        *)
(* Python's readlines() and file iteration produce them.  Positions in     *)
(* the index mappings are 0-based as in the source.                        *)
(***************************************************************************)
EXTENDS Integers, Sequences, FiniteSets, TLC

VARIABLES
    pc,                 \* position in main() / write_output()
    err,                \* "" or the error / uncaught exception that ended the run
    err_sample,         \* the sample identifier an UnmatchedSampleError names
    opt_model_sample,   \* options.model_sample is not None
    opt_allow_subsetting, \* options.allow_subsetting
    opt_sample_out,     \* options.sample_out is not None
    sample_in_file,     \* lines of the file options.sample_in
    new_order_file,     \* lines of the file giving the output order
    input_sample_order, \* main(): input_sample_order
    new_sample_order,   \* main(): new_sample_order
    old_to_new_index,   \* main(): old_to_new_index (dict as a function)
    sample_out_opened,  \* open(options.sample_out, 'w') has run
    sample_out,         \* the text written to options.sample_out
    index_array,        \* main(): index_array
    n_samples_input,    \* main(): n_samples_input
    gen_in,             \* the lines of the input .gen stream
    ip_pos,             \* lines of gen_in the for loop has consumed
    buffered_lines,     \* write_output(): buffered_lines
    counter,            \* write_output(): counter
    gen_out,            \* the text written to the output .gen stream
    batches,            \* history: sizes of the batches handed to _write_lines
    rd_file,            \* read_sample_order(): lines of the file fname
    rd_is_sample_file,  \* read_sample_order(): is_sample_file
    rd_result           \* read_sample_order(): outcome of the call

vars == <<pc, err, err_sample, opt_model_sample, opt_allow_subsetting,
          opt_sample_out, sample_in_file, new_order_file, input_sample_order,
          new_sample_order, old_to_new_index, sample_out_opened, sample_out,
          index_array, n_samples_input, gen_in, ip_pos, buffered_lines,
          counter, gen_out, batches, rd_file, rd_is_sample_file, rd_result>>

-----------------------------------------------------------------------------
(* Bounds and program constants *)

MAX_SNPS_IN_BUFFER == 6

MaxOldSamples == 3
MaxNewSamples == 3
MaxReaderLines == 4
MaxBatchSamples == 2
MaxBatchRows == 2
MaxIndexLen == 2
MaxStreamSamples == 1
MaxExtraRows == 1

-----------------------------------------------------------------------------
(* Generic helpers *)

Range(s) == {s[i] : i \in DOMAIN s}

SeqsUpTo(S, n) == UNION {[1..k -> S] : k \in 0..n}

Min(S) == CHOOSE x \in S : \A y \in S : x =< y

Max(S) == CHOOSE x \in S : \A y \in S : x >= y

RECURSIVE Concat(_)
Concat(ss) == IF ss = <<>> THEN <<>> ELSE Head(ss) \o Concat(Tail(ss))

\* Python's None
None == <<"None">>

-----------------------------------------------------------------------------
(* Python string operations on text *)

IsWs(c) == c \in {" ", "\t", "\n"}

RECURSIVE LStrip(_)
LStrip(s) == IF s # <<>> /\ IsWs(Head(s)) THEN LStrip(Tail(s)) ELSE s

RECURSIVE RStrip(_)
RStrip(s) ==
    IF s # <<>> /\ IsWs(s[Len(s)]) THEN RStrip(SubSeq(s, 1, Len(s) - 1)) ELSE s

\* str.strip()
Strip(s) == RStrip(LStrip(s))

RECURSIVE SplitAcc(_, _, _, _)
SplitAcc(s, sep, cur, acc) ==
    IF s = <<>> THEN Append(acc, cur)
    ELSE IF Head(s) = sep
         THEN SplitAcc(Tail(s), sep, <<>>, Append(acc, cur))
         ELSE SplitAcc(Tail(s), sep, Append(cur, Head(s)), acc)

\* str.split(sep) for a one-character sep: empty fields are kept
SplitOn(s, sep) == SplitAcc(s, sep, <<>>, <<>>)

RECURSIVE SplitWsAcc(_, _, _)
SplitWsAcc(s, cur, acc) ==
    IF s = <<>> THEN (IF cur = <<>> THEN acc ELSE Append(acc, cur))
    ELSE IF IsWs(Head(s))
         THEN SplitWsAcc(Tail(s), <<>>, IF cur = <<>> THEN acc ELSE Append(acc, cur))
         ELSE SplitWsAcc(Tail(s), Append(cur, Head(s)), acc)

\* str.split() with no argument: runs of whitespace separate, no empty fields
SplitWs(s) == SplitWsAcc(s, <<>>, <<>>)

RECURSIVE JoinWith(_, _)
JoinWith(sep, items) ==
    IF items = <<>> THEN <<>>
    ELSE IF Len(items) = 1 THEN items[1]
    ELSE items[1] \o <<sep>> \o JoinWith(sep, Tail(items))

\* ' '.join(items)
Join(items) == JoinWith(" ", items)

\* '\n'.join(items)
JoinNl(items) == JoinWith("\n", items)

-----------------------------------------------------------------------------
(* read_sample_order *)

\* sample_id = ' '.join(line.strip().split()[:2])
SampleId(line) ==
    LET ln == SplitWs(Strip(line))
    IN  Join(SubSeq(ln, 1, IF Len(ln) < 2 THEN Len(ln) ELSE 2))

AllSampleIds(lines) == [i \in 1..Len(lines) |-> SampleId(lines[i])]

\* mutant: one header line dropped instead of two
DropHeaderMut(ids, is_sample_file) ==
    IF is_sample_file THEN SubSeq(ids, 2, Len(ids)) ELSE ids

\* input_sample_order[2:] when is_sample_file
DropHeader(ids, is_sample_file) ==
    IF is_sample_file THEN SubSeq(ids, 3, Len(ids)) ELSE ids

\* len({i: i for i in order}) != len(order)
HasDuplicates(order) == Cardinality(Range(order)) # Len(order)

read_sample_order(lines, is_sample_file) ==
    LET order == DropHeader(AllSampleIds(lines), is_sample_file)
    IN  IF HasDuplicates(order)
        THEN [err |-> "DuplicateIdentifierError", order |-> <<>>]
        ELSE [err |-> "", order |-> order]

-----------------------------------------------------------------------------
(* main(): index resolution *)

\* new_sample_dict = {v: i for i, v in enumerate(new_sample_order)}
NewSampleDict(order) ==
    [v \in Range(order) |-> Max({i \in 0..(Len(order) - 1) : order[i + 1] = v})]

\* the old positions whose lookup raises KeyError
Unmatched(input_order, new_order) ==
    {i \in 0..(Len(input_order) - 1) : input_order[i + 1] \notin Range(new_order)}

\* old_to_new_index[i_old] = i_new
OldToNew(input_order, new_order) ==
    LET d == NewSampleDict(new_order)
    IN  [i \in (0..(Len(input_order) - 1)) \ Unmatched(input_order, new_order)
            |-> d[input_order[i + 1]]]

\* mutant: an unmatched sample is skipped whatever the flag says
ResolveOldToNewMut(input_order, new_order, allow_subsetting) ==
    [err |-> "", sample |-> <<>>, map |-> OldToNew(input_order, new_order)]

\* the for loop building old_to_new_index: stops at the first KeyError
\* unless options.allow_subsetting
ResolveOldToNew(input_order, new_order, allow_subsetting) ==
    LET um == Unmatched(input_order, new_order)
    IN  IF um # {} /\ ~allow_subsetting
        THEN [err |-> "UnmatchedSampleError",
              sample |-> input_order[Min(um) + 1],
              map |-> <<>>]
        ELSE [err |-> "", sample |-> <<>>,
              map |-> OldToNew(input_order, new_order)]

\* mutant: the mapping is not inverted
NewToOldMut(o2n) == o2n

\* new_to_old_index = {i_new: i_old for i_old, i_new in old_to_new_index.items()}
NewToOld(o2n) ==
    [i_new \in {o2n[i] : i \in DOMAIN o2n}
        |-> Max({i_old \in DOMAIN o2n : o2n[i_old] = i_new})]

\* index_array = [None for i in new_to_old_index], then
\* index_array[new_index] = old_index for every item (IndexError when
\* new_index is past the end), then the check "None in index_array"
MakeIndexArray(o2n) ==
    LET n2o == NewToOld(o2n)
        k   == Cardinality(DOMAIN n2o)
    IN  IF \E i_new \in DOMAIN n2o : i_new >= k
        THEN [err |-> "IndexError", index_array |-> <<>>]
        ELSE IF \E i \in 0..(k - 1) : i \notin DOMAIN n2o
        THEN [err |-> "IncompletePermutationError", index_array |-> <<>>]
        ELSE [err |-> "", index_array |-> [i \in 1..k |-> n2o[i - 1]]]

-----------------------------------------------------------------------------
(* main(): the new sample file *)

\* mutant: a line is kept at its old position
NewLinesMut(old_lines, new_order, o2n) ==
    LET body == SubSeq(old_lines, 3, Len(old_lines))
    IN  [i \in 1..Len(new_order) |->
            IF (i - 1) \in DOMAIN o2n /\ i =< Len(body) THEN body[i] ELSE None]

\* new_lines = [None for i in new_sample_order], then
\* new_lines[old_to_new_index[i_old]] = l for every line of old_lines[2:]
\* whose position is a key of old_to_new_index
NewLines(old_lines, new_order, o2n) ==
    LET body == SubSeq(old_lines, 3, Len(old_lines))
        src(i_new) == {i_old \in DOMAIN o2n :
                          o2n[i_old] = i_new /\ i_old + 1 =< Len(body)}
    IN  [i \in 1..Len(new_order) |->
            IF src(i - 1) = {} THEN None ELSE body[Max(src(i - 1)) + 1]]

\* mutant: positions left at None are skipped instead of stripped
SampleFileTextMut(old_lines, new_order, o2n) ==
    LET new_lines == SubSeq(old_lines, 1, IF Len(old_lines) < 2 THEN Len(old_lines) ELSE 2)
                       \o NewLines(old_lines, new_order, o2n)
        kept == SelectSeq(new_lines, LAMBDA l : l # None)
    IN  [err |-> "",
         text |-> JoinNl([i \in 1..Len(kept) |-> Strip(kept[i])]) \o <<"\n">>]

\* new_lines = old_lines[:2] + new_lines
\* op.write('\n'.join([i.strip() for i in new_lines]) + '\n')
SampleFileText(old_lines, new_order, o2n) ==
    LET new_lines == SubSeq(old_lines, 1, IF Len(old_lines) < 2 THEN Len(old_lines) ELSE 2)
                       \o NewLines(old_lines, new_order, o2n)
    IN  IF None \in Range(new_lines)
        THEN [err |-> "AttributeError", text |-> <<>>]
        ELSE [err |-> "",
              text |-> JoinNl([i \in 1..Len(new_lines) |-> Strip(new_lines[i])])
                         \o <<"\n">>]

-----------------------------------------------------------------------------
(* read_gen_lines *)

\* [i.strip().split(' ') for i in lines]
GenRows(lines) == [r \in 1..Len(lines) |-> SplitOn(Strip(lines[r]), " ")]

\* numpy.array() of rows of unequal length
IsRagged(rows) == \E r \in 1..Len(rows) : Len(rows[r]) # Len(rows[1])

\* i_genotypes: the line may or may not have the chromosome code
DescriptorWidth(T) == IF T % 3 = 0 THEN 6 ELSE 5

\* array[..., :i_genotypes]
NonGenotypeCols(row, w) == SubSeq(row, 1, IF Len(row) < w THEN Len(row) ELSE w)

\* array[..., i_genotypes:]
GenotypeCols(row, w) == SubSeq(row, w + 1, Len(row))

\* genotype_cols.reshape(n_snps, n_samples, 3): [sample][probabilities] of one row
Reshape(gcols, n_samples) ==
    [k \in 0..(n_samples - 1) |-> SubSeq(gcols, 3 * k + 1, 3 * k + 3)]

\* err "ragged": numpy.array() was given rows of unequal length.
\* err "TypeError": the message of the count check is built with
\* ' '.join(non_genotype_cols) over a two-dimensional array, whose items are
\* arrays and not strings.
read_gen_lines(lines, n_samples) ==
    LET rows == GenRows(lines)
        w    == DescriptorWidth(Len(rows[1]))
    IN  IF lines = <<>>
        THEN [err |-> "IndexError", non_genotype_cols |-> <<>>, genotypes |-> <<>>]
        ELSE IF IsRagged(rows)
        THEN [err |-> "ragged", non_genotype_cols |-> <<>>, genotypes |-> <<>>]
        ELSE IF Len(GenotypeCols(rows[1], w)) # 3 * n_samples
        THEN [err |-> "TypeError", non_genotype_cols |-> <<>>, genotypes |-> <<>>]
        ELSE [err |-> "",
              non_genotype_cols |-> [r \in 1..Len(rows) |-> NonGenotypeCols(rows[r], w)],
              genotypes |-> [r \in 1..Len(rows) |->
                                Reshape(GenotypeCols(rows[r], w), n_samples)]]

-----------------------------------------------------------------------------
(* _write_lines *)

\* mutant: the samples are taken in the reverse of the asked order
GatherMut(sample_triplets, ia) ==
    Concat([i \in 1..Len(ia) |-> sample_triplets[ia[Len(ia) + 1 - i]]])

\* genotypes[numpy.ix_(range(0, len(genotypes)), index_array)] for one row,
\* reshaped to len(index_array) * 3 columns
Gather(sample_triplets, ia) ==
    Concat([i \in 1..Len(ia) |-> sample_triplets[ia[i]]])

\* the text handed to op.write, and the returned len(op_lines)
write_lines(lines, n_in, ia) ==
    LET p == read_gen_lines(lines, n_in)
    IN  IF p.err # ""
        THEN [err |-> p.err, text |-> <<>>, n |-> 0]
        ELSE IF \E i \in 1..Len(ia) : ia[i] >= n_in
        THEN [err |-> "IndexError", text |-> <<>>, n |-> 0]
        ELSE [err |-> "",
              text |-> JoinNl([r \in 1..Len(lines) |->
                                 Join(p.non_genotype_cols[r]
                                        \o Gather(p.genotypes[r], ia))])
                         \o <<"\n">>,
              n |-> Len(lines)]

\* What ends the run for each failure of _write_lines.  numpy.array() on rows
\* of unequal length either raises ValueError or builds an array of lists,
\* which the length check then reports: the numpy release decides.
FailureOutcomes(e) ==
    IF e = "ragged" THEN {"InconsistentRowWidthError", "ValueError"} ELSE {e}

-----------------------------------------------------------------------------
(* Input data *)

Letters == <<"a", "b", "c", "d", "e", "f", "g", "h", "i", "j", "k", "l",
             "m", "n", "o", "p", "q", "r", "s", "t", "u", "v", "w", "x">>

Capitals == <<"A", "B", "C", "D", "E", "F", "G", "H", "I", "J", "K", "L",
              "M", "N", "O", "P", "Q", "R", "S", "T", "U", "V", "W", "X">>

\* a line of T one-character columns
ColsLine(T, alphabet) == Join([j \in 1..T |-> <<alphabet[j]>>]) \o <<"\n">>

\* a .gen line with w descriptor columns and 3 probabilities for n samples
GenLine(w, n, alphabet) == ColsLine(w + 3 * n, alphabet)

HeaderLines == << <<"I", " ", "J", " ", "m", "\n">>, <<"0", " ", "0", " ", "0", "\n">> >>

\* sample lines of the input sample file: identifiers "A 1", "B 1", "C 1"
InSampleLines ==
    { <<"A", " ", "1", " ", "x", "\n">>,
      <<"B", " ", "1", " ", "x", " ", "\n">>,
      <<"C", " ", "1", " ", "x", "\n">> }

\* sample lines of the model sample file: the same identifiers on other lines
NewSampleLines ==
    { <<"A", " ", "1", " ", "y", "\n">>,
      <<"B", " ", " ", "1", " ", "y", "\n">>,
      <<"C", " ", "1", " ", "y", "\n">> }

\* lines for read_sample_order alone
ReaderLines ==
    { <<"A", " ", "1", "\n">>,
      <<" ", "A", "\t", "1", " ", "x", "\n">>,
      <<"B", " ", "1", "\n">>,
      <<"A", "\n">>,
      <<"\n">> }

-----------------------------------------------------------------------------
(* main() *)

Idle ==
    /\ rd_file = <<>> /\ rd_is_sample_file = FALSE /\ rd_result = <<>>

InitMain ==
    /\ pc = "read_in"
    /\ err = ""
    /\ err_sample = <<>>
    /\ opt_model_sample \in BOOLEAN
    /\ opt_allow_subsetting \in BOOLEAN
    /\ opt_sample_out \in BOOLEAN
    /\ \E body \in SeqsUpTo(InSampleLines, MaxOldSamples) :
          /\ sample_in_file = HeaderLines \o body
          /\ gen_in = <<GenLine(5, Len(body), Letters)>>
    /\ \E body \in SeqsUpTo(NewSampleLines, MaxNewSamples) :
          new_order_file = HeaderLines \o body
    /\ input_sample_order = <<>>
    /\ new_sample_order = <<>>
    /\ old_to_new_index = <<>>
    /\ sample_out_opened = FALSE
    /\ sample_out = <<>>
    /\ index_array = <<>>
    /\ n_samples_input = 0
    /\ ip_pos = 0
    /\ buffered_lines = <<>>
    /\ counter = 0
    /\ gen_out = <<>>
    /\ batches = <<>>
    /\ Idle

streamVars == <<gen_in, ip_pos, buffered_lines, counter, gen_out, batches>>
readerVars == <<rd_file, rd_is_sample_file, rd_result>>
optVars == <<opt_model_sample, opt_allow_subsetting, opt_sample_out,
             sample_in_file, new_order_file>>

\* input_sample_order = read_sample_order(options.sample_in, is_sample_file=True)
ReadInputOrder ==
    /\ pc = "read_in" /\ err = ""
    /\ LET r == read_sample_order(sample_in_file, TRUE)
       IN  /\ err' = r.err
           /\ input_sample_order' = r.order
           /\ pc' = IF r.err = "" THEN "read_new" ELSE pc
    /\ UNCHANGED <<err_sample, new_sample_order, old_to_new_index,
                   sample_out_opened, sample_out, index_array, n_samples_input>>
    /\ UNCHANGED <<optVars, streamVars, readerVars>>

\* Without --model-sample the name of the order file is read from
\* options.new_order, an attribute the parser never sets (--order is stored
\* as options.order): AttributeError.
ReadNewOrder ==
    /\ pc = "read_new" /\ err = ""
    /\ IF ~opt_model_sample
       THEN /\ err' = "AttributeError"
            /\ UNCHANGED <<new_sample_order, pc>>
       ELSE LET r == read_sample_order(new_order_file, TRUE)
            IN  /\ err' = r.err
                /\ new_sample_order' = r.order
                /\ pc' = IF r.err = "" THEN "resolve" ELSE pc
    /\ UNCHANGED <<err_sample, input_sample_order, old_to_new_index,
                   sample_out_opened, sample_out, index_array, n_samples_input>>
    /\ UNCHANGED <<optVars, streamVars, readerVars>>

\* the loop "make a dict from old -> new indexes for the genotypes"
Resolve ==
    /\ pc = "resolve" /\ err = ""
    /\ LET r == ResolveOldToNew(input_sample_order, new_sample_order,
                                opt_allow_subsetting)
       IN  /\ err' = r.err
           /\ err_sample' = r.sample
           /\ old_to_new_index' = r.map
           /\ pc' = IF r.err = "" THEN "write_sample" ELSE pc
    /\ UNCHANGED <<input_sample_order, new_sample_order,
                   sample_out_opened, sample_out, index_array, n_samples_input>>
    /\ UNCHANGED <<optVars, streamVars, readerVars>>

\* "write the new sample file": the file is opened for writing, which
\* empties it, before the lines are put together
WriteSampleFile ==
    /\ pc = "write_sample" /\ err = ""
    /\ IF ~opt_sample_out
       THEN /\ err' = "MissingOutputDestinationError"
            /\ UNCHANGED <<sample_out_opened, sample_out, pc>>
       ELSE LET r == SampleFileText(sample_in_file, new_sample_order,
                                    old_to_new_index)
            IN  /\ sample_out_opened' = TRUE
                /\ err' = r.err
                /\ sample_out' = r.text
                /\ pc' = IF r.err = "" THEN "index" ELSE pc
    /\ UNCHANGED <<err_sample, input_sample_order, new_sample_order,
                   old_to_new_index, index_array, n_samples_input>>
    /\ UNCHANGED <<optVars, streamVars, readerVars>>

\* "convert the dict to an index array", up to the call of write_output
BuildIndexArray ==
    /\ pc = "index" /\ err = ""
    /\ LET r == MakeIndexArray(old_to_new_index)
       IN  /\ err' = r.err
           /\ index_array' = r.index_array
           /\ n_samples_input' =
                 IF r.err = "" THEN Len(input_sample_order) ELSE n_samples_input
           /\ pc' = IF r.err = "" THEN "loop" ELSE pc
    /\ UNCHANGED <<err_sample, input_sample_order, new_sample_order,
                   old_to_new_index, sample_out_opened, sample_out>>
    /\ UNCHANGED <<optVars, streamVars, readerVars>>

-----------------------------------------------------------------------------
(* write_output *)

mainVars == <<err_sample, input_sample_order, new_sample_order,
              old_to_new_index, sample_out_opened, sample_out, index_array,
              n_samples_input>>

\* mutant: the batch is written one line late
BufferFullMut(buf) == Len(buf) > MAX_SNPS_IN_BUFFER

\* len(buffered_lines) == MAX_SNPS_IN_BUFFER
BufferFull(buf) == Len(buf) = MAX_SNPS_IN_BUFFER

\* len(buffered_lines) > 0
BufferLeft(buf) == Len(buf) > 0

\* mutant: the buffer is not emptied
ClearedBufferMut(buf) == buf

\* buffered_lines = [] after a batch is written
ClearedBuffer(buf) == <<>>

\* counter += _write_lines(op, buffered_lines, n_samples_input, index_array)
Flush(next_pc) ==
    LET r == write_lines(buffered_lines, n_samples_input, index_array)
    IN  /\ batches' = Append(batches, Len(buffered_lines))
        /\ IF r.err = ""
           THEN /\ gen_out' = gen_out \o r.text
                /\ counter' = counter + r.n
                /\ buffered_lines' = ClearedBuffer(buffered_lines)
                /\ pc' = next_pc
                /\ err' = ""
           ELSE /\ err' \in FailureOutcomes(r.err)
                /\ UNCHANGED <<gen_out, counter, buffered_lines, pc>>

\* for line in ip: buffered_lines.append(line)
AppendLine ==
    /\ pc = "loop" /\ err = ""
    /\ ip_pos < Len(gen_in)
    /\ buffered_lines' = Append(buffered_lines, gen_in[ip_pos + 1])
    /\ ip_pos' = ip_pos + 1
    /\ pc' = "check"
    /\ UNCHANGED <<err, gen_in, counter, gen_out, batches>>
    /\ UNCHANGED <<mainVars, optVars, readerVars>>

\* if len(buffered_lines) == MAX_SNPS_IN_BUFFER: write the batch
CheckBuffer ==
    /\ pc = "check" /\ err = ""
    /\ IF BufferFull(buffered_lines)
       THEN Flush("loop")
       ELSE /\ pc' = "loop"
            /\ UNCHANGED <<err, buffered_lines, counter, gen_out, batches>>
    /\ UNCHANGED <<gen_in, ip_pos>>
    /\ UNCHANGED <<mainVars, optVars, readerVars>>

\* after the loop: the rest of the buffer is written, write_output returns
\* and main() ends
EndOfInput ==
    /\ pc = "loop" /\ err = ""
    /\ ip_pos = Len(gen_in)
    /\ IF BufferLeft(buffered_lines)
       THEN Flush("done")
       ELSE /\ pc' = "done"
            /\ UNCHANGED <<err, buffered_lines, counter, gen_out, batches>>
    /\ UNCHANGED <<gen_in, ip_pos>>
    /\ UNCHANGED <<mainVars, optVars, readerVars>>

NextStream == AppendLine \/ CheckBuffer \/ EndOfInput

NextMain ==
    \/ ReadInputOrder
    \/ ReadNewOrder
    \/ Resolve
    \/ WriteSampleFile
    \/ BuildIndexArray
    \/ AppendLine
    \/ CheckBuffer
    \/ EndOfInput

Spec == InitMain /\ [][NextMain]_vars

-----------------------------------------------------------------------------
(* write_output alone: streams of up to one line more than a full batch *)

MaxStreamRows == MAX_SNPS_IN_BUFFER + MaxExtraRows

\* well-formed lines for n samples: two without and one with the
\* chromosome code
StreamPool(n) ==
    {GenLine(5, n, Letters), GenLine(5, n, Capitals), GenLine(6, n, Letters)}

\* the identity, the reversal, and the last sample alone
StreamIndexArrays(n) ==
    { [i \in 1..n |-> i - 1], [i \in 1..n |-> n - i], <<n - 1>> }

MainIdle ==
    /\ err_sample = <<>>
    /\ opt_model_sample = TRUE
    /\ opt_allow_subsetting = FALSE
    /\ opt_sample_out = TRUE
    /\ sample_in_file = <<>>
    /\ new_order_file = <<>>
    /\ input_sample_order = <<>>
    /\ new_sample_order = <<>>
    /\ old_to_new_index = <<>>
    /\ sample_out_opened = FALSE
    /\ sample_out = <<>>

StreamStart ==
    /\ pc = "loop"
    /\ err = ""
    /\ ip_pos = 0
    /\ buffered_lines = <<>>
    /\ counter = 0
    /\ gen_out = <<>>
    /\ batches = <<>>

InitStream ==
    /\ StreamStart
    /\ MainIdle
    /\ Idle
    /\ n_samples_input \in 1..MaxStreamSamples
    /\ index_array \in StreamIndexArrays(n_samples_input)
    /\ gen_in \in SeqsUpTo(StreamPool(n_samples_input), MaxStreamRows)

SpecStream == InitStream /\ [][NextStream]_vars

-----------------------------------------------------------------------------
(* _write_lines on single batches of lines of every width *)

\* a well-formed line with blanks around it
PaddedGenLine(w, n, alphabet) ==
    <<" ">> \o RStrip(GenLine(w, n, alphabet)) \o <<" ", "\n">>

BatchPool(n) ==
    {ColsLine(T, Letters) : T \in (3 * n + 3)..(3 * n + 9)}
        \cup {PaddedGenLine(5, n, Capitals)}

InitBatch ==
    /\ StreamStart
    /\ MainIdle
    /\ Idle
    /\ n_samples_input \in 0..MaxBatchSamples
    /\ index_array \in SeqsUpTo(0..(n_samples_input - 1), MaxIndexLen)
    /\ gen_in \in SeqsUpTo(BatchPool(n_samples_input), MaxBatchRows)

SpecBatch == InitBatch /\ [][NextStream]_vars

-----------------------------------------------------------------------------
(* read_sample_order alone *)

InitReader ==
    /\ pc = "reader"
    /\ err = ""
    /\ MainIdle
    /\ index_array = <<>>
    /\ n_samples_input = 0
    /\ gen_in = <<>>
    /\ ip_pos = 0
    /\ buffered_lines = <<>>
    /\ counter = 0
    /\ gen_out = <<>>
    /\ batches = <<>>
    /\ rd_file \in SeqsUpTo(ReaderLines, MaxReaderLines)
    /\ rd_is_sample_file \in BOOLEAN
    /\ rd_result = <<>>

\* one call read_sample_order(fname, is_sample_file)
CallReader ==
    /\ pc = "reader" /\ err = ""
    /\ LET r == read_sample_order(rd_file, rd_is_sample_file)
       IN  /\ err' = r.err
           /\ rd_result' = r.order
           /\ pc' = IF r.err = "" THEN "returned" ELSE pc
    /\ UNCHANGED <<rd_file, rd_is_sample_file, index_array, n_samples_input>>
    /\ UNCHANGED <<err_sample, input_sample_order, new_sample_order,
                   old_to_new_index, sample_out_opened, sample_out>>
    /\ UNCHANGED <<optVars, streamVars>>

NextReader == CallReader

SpecReader == InitReader /\ [][NextReader]_vars

-----------------------------------------------------------------------------
(* Properties *)

\* the lines of a written text, without their terminators
OutLines(text) ==
    LET parts == SplitOn(text, "\n") IN SubSeq(parts, 1, Len(parts) - 1)

\* main() has built index_array and gone on to write_output
IndexBuilt == pc \in {"loop", "check", "done"}

\* the resolution loop of main() has run
Resolved ==
    \/ pc = "resolve" /\ err # ""
    \/ pc \in {"write_sample", "index", "loop", "check", "done"}

\* the output order names a sample the input sample file does not have
TargetHasUnknown ==
    \E v \in Range(new_sample_order) : v \notin Range(input_sample_order)

UnmatchedOld ==
    {i \in 0..(Len(input_sample_order) - 1) :
        \A j \in 1..Len(new_sample_order) :
            new_sample_order[j] # input_sample_order[i + 1]}

\* C1: once index resolution has succeeded, index_array has one entry per
\* sample of the output order, every entry is a position of the input order,
\* no position occurs twice, and the input identifier at index_array[i] is the
\* output identifier at i.
C1_IndexArrayIsPermutation ==
    IndexBuilt =>
        /\ Len(index_array) = Len(new_sample_order)
        /\ \A i \in 1..Len(index_array) :
              /\ index_array[i] \in 0..(Len(input_sample_order) - 1)
              /\ input_sample_order[index_array[i] + 1] = new_sample_order[i]
        /\ \A i, j \in 1..Len(index_array) :
              i # j => index_array[i] # index_array[j]

\* C1 witness: input order A, B, C and output order C, A, B resolve to (2, 0, 1)
C1_Witness ==
    /\ pc = "done" /\ err = ""
    /\ Len(input_sample_order) = 3
    /\ index_array = <<2, 0, 1>>

\* C2 (as claimed): a run whose output order names a sample absent from the
\* input order, and that is not stopped earlier by an unmatched input sample
\* or a missing --sample-out, ends with IncompletePermutationError.
C2_UnknownTargetIsIncompletePermutation ==
    (/\ TargetHasUnknown
     /\ Resolved
     /\ err \notin {"UnmatchedSampleError", "MissingOutputDestinationError"}
     /\ pc # "write_sample" \/ err # "")
        => err = "IncompletePermutationError"

\* C3 (as claimed): every input sample absent from the output order is the
\* sample the UnmatchedSampleError names when subsetting is not allowed.
C3_EveryUnmatchedSampleNamed ==
    \A i \in UnmatchedOld :
        (Resolved /\ ~opt_allow_subsetting) =>
            /\ err = "UnmatchedSampleError"
            /\ err_sample = input_sample_order[i + 1]

\* C3 (amended): with an input sample absent from the output order and
\* subsetting not allowed, the run fails with UnmatchedSampleError naming the
\* first such sample of the input order; with subsetting allowed the loop does
\* not fail, no absent sample's position is in index_array, every other
\* position is, and the positions follow the output order.
C3_UnmatchedPolicy ==
    /\ (Resolved /\ ~opt_allow_subsetting /\ UnmatchedOld # {}) =>
          /\ err = "UnmatchedSampleError"
          /\ pc = "resolve"
          /\ \E i \in UnmatchedOld :
                /\ err_sample = input_sample_order[i + 1]
                /\ \A j \in UnmatchedOld : i =< j
    /\ (Resolved /\ (opt_allow_subsetting \/ UnmatchedOld = {})) =>
          err # "UnmatchedSampleError"
    /\ (IndexBuilt /\ opt_allow_subsetting) =>
          /\ \A i \in UnmatchedOld : i \notin Range(index_array)
          /\ \A i \in (0..(Len(input_sample_order) - 1)) \ UnmatchedOld :
                i \in Range(index_array)
          /\ \A k, l \in 1..Len(index_array) :
                k < l =>
                    \E a, b \in 1..Len(new_sample_order) :
                        /\ a < b
                        /\ new_sample_order[a] = input_sample_order[index_array[k] + 1]
                        /\ new_sample_order[b] = input_sample_order[index_array[l] + 1]

\* C3 witness: input order A, B, C and output order A, C with subsetting
\* allowed: B is dropped, index_array is (0, 2), and the written row has the
\* five descriptors, then A's and C's probabilities
C3_Witness ==
    /\ pc = "done" /\ err = ""
    /\ opt_allow_subsetting
    /\ Len(input_sample_order) = 3
    /\ UnmatchedOld = {1}
    /\ index_array = <<0, 2>>
    /\ gen_out = <<"a", " ", "b", " ", "c", " ", "d", " ", "e", " ",
                   "f", " ", "g", " ", "h", " ", "l", " ", "m", " ", "n", "\n">>

\* the columns of input line r, as the parser splits them
InFields(r) == SplitOn(Strip(gen_in[r]), " ")

\* C4: after a batch is accepted and written, every output row holds the
\* input row's descriptor columns unchanged and in order, then one triplet
\* per entry of index_array, the triplet at new position i being the three
\* values, in order, of the input triplet at old position index_array[i];
\* with the identity index array the output row is the input row.
C4_RowsReordered ==
    (pc = "done" /\ err = "" /\ gen_in # <<>>) =>
        LET out == OutLines(gen_out)
        IN  /\ Len(out) = Len(gen_in)
            /\ \A r \in 1..Len(gen_in) :
                  LET f == InFields(r)
                      o == SplitOn(out[r], " ")
                      w == Len(f) - 3 * n_samples_input
                  IN  /\ Len(o) = w + 3 * Len(index_array)
                      /\ \A j \in 1..w : o[j] = f[j]
                      /\ \A i \in 1..Len(index_array) : \A j \in 1..3 :
                            o[w + 3 * (i - 1) + j] = f[w + 3 * index_array[i] + j]
                      /\ index_array = [i \in 1..n_samples_input |-> i - 1]
                            => out[r] = Strip(gen_in[r])

\* C4 witness: a batch of two different rows of two samples written with the
\* samples swapped
C4_Witness ==
    /\ pc = "done" /\ err = ""
    /\ n_samples_input = 2
    /\ index_array = <<1, 0>>
    /\ Len(gen_in) = 2
    /\ gen_in[1] # gen_in[2]
    /\ gen_out # <<>>

\* the whole input handed to _write_lines as one batch
SingleBatch == write_lines(gen_in, n_samples_input, index_array)

\* write_output has returned or the run has failed
StreamEnded == pc = "done" \/ err # ""

\* C5 (as claimed): for every non-empty input, write_output ends as the one
\* batch does: it writes the same text and returns the number of input rows
\* when the one batch is accepted, and writes nothing and fails when the one
\* batch is rejected.
C5_SameAsSingleBatchAlways ==
    (StreamEnded /\ gen_in # <<>>) =>
        IF SingleBatch.err = ""
        THEN err = "" /\ gen_out = SingleBatch.text /\ counter = Len(gen_in)
        ELSE err # "" /\ gen_out = <<>>

\* C5 (amended): for every non-empty input that is accepted as one batch,
\* write_output writes the same text as the one batch and returns the number
\* of input rows.
C5_SameAsSingleBatchWhenAccepted ==
    (StreamEnded /\ gen_in # <<>> /\ SingleBatch.err = "") =>
        /\ err = ""
        /\ gen_out = SingleBatch.text
        /\ counter = Len(gen_in)
        /\ counter = SingleBatch.n

\* C5 witness: an accepted input of one row more than a full batch, with
\* rows that differ, written in two batches
C5_Witness ==
    /\ pc = "done" /\ err = ""
    /\ Len(gen_in) = MAX_SNPS_IN_BUFFER + 1
    /\ gen_in[1] # gen_in[2]
    /\ gen_in[MAX_SNPS_IN_BUFFER] # gen_in[MAX_SNPS_IN_BUFFER + 1]
    /\ SingleBatch.err = ""
    /\ Len(batches) = 2

\* the sample lines of the input sample file
InBody == SubSeq(sample_in_file, 3, Len(sample_in_file))

\* main() has written the output sample file
SampleFileWritten == pc \in {"index", "loop", "check", "done"}

\* C6: the written sample file holds the two header lines of the input sample
\* file, then one line per sample of the output order, line i being the input
\* line of the sample the output order has at i (without surrounding blanks);
\* no line of a dropped sample is written, and no placeholder or empty line.
C6_SampleFileRewritten ==
    SampleFileWritten =>
        LET out == OutLines(sample_out)
        IN  /\ Len(out) = 2 + Len(new_sample_order)
            /\ out[1] = Strip(sample_in_file[1])
            /\ out[2] = Strip(sample_in_file[2])
            /\ \A i \in 1..Len(new_sample_order) :
                  \E j \in 1..Len(InBody) :
                      /\ SubSeq(SplitWs(InBody[j]), 1, 2)
                            = SplitWs(new_sample_order[i])
                      /\ out[2 + i] = Strip(InBody[j])
            /\ \A j \in 1..Len(InBody) :
                  (\A i \in 1..Len(new_sample_order) :
                      SubSeq(SplitWs(InBody[j]), 1, 2) # SplitWs(new_sample_order[i]))
                    => \A k \in 3..Len(out) : out[k] # Strip(InBody[j])
            /\ \A k \in 1..Len(out) : out[k] # <<>> /\ out[k] # None

\* C6 witness: a finished run that drops a sample and changes the order
C6_Witness ==
    /\ pc = "done" /\ err = ""
    /\ Len(input_sample_order) = 3
    /\ Len(new_sample_order) = 2
    /\ index_array = <<2, 0>>

\* all input lines have the same number of columns
UniformWidth == \A r \in 1..Len(gen_in) : Len(InFields(r)) = Len(InFields(1))

\* C7 (as claimed, for one input sample or more): a batch whose rows all have
\* T columns is accepted exactly
\* when T minus the descriptor width (6 if 3 divides T, else 5) is 3 * n, and
\* a rejected batch ends the run with GenotypeCountMismatchError.
C7_AcceptedIffCountMatches ==
    (batches # <<>> /\ UniformWidth /\ n_samples_input >= 1) =>
        LET T == Len(InFields(1))
            w == IF T % 3 = 0 THEN 6 ELSE 5
        IN  /\ (err = "") <=> (T - w = 3 * n_samples_input)
            /\ err # "" => err = "GenotypeCountMismatchError"

\* the first two whitespace tokens of a line
FirstTwo(line) ==
    LET t == SplitWs(line) IN SubSeq(t, 1, IF Len(t) < 2 THEN Len(t) ELSE 2)

\* the lines of rd_file that read_sample_order indexes
CheckedLines ==
    IF rd_is_sample_file THEN SubSeq(rd_file, 3, Len(rd_file)) ELSE rd_file

\* C8: read_sample_order fails with DuplicateIdentifierError exactly when two
\* of the indexed lines (all lines of an order file, all but the first two
\* of a sample file) have the same first two tokens; otherwise it returns
\* the identifiers of the indexed lines in order.
C8_DuplicateDetection ==
    (pc = "returned" \/ err # "") =>
        /\ (err = "DuplicateIdentifierError") <=>
              \E i, j \in 1..Len(CheckedLines) :
                  i # j /\ FirstTwo(CheckedLines[i]) = FirstTwo(CheckedLines[j])
        /\ err = "" =>
              /\ Len(rd_result) = Len(CheckedLines)
              /\ \A i \in 1..Len(CheckedLines) :
                    SplitWs(rd_result[i]) = FirstTwo(CheckedLines[i])

\* C8 witness: a sample file whose header line has the identifier of a sample
\* line, and whose two header lines have the same identifier, is read
C8_Witness ==
    /\ pc = "returned" /\ err = ""
    /\ rd_is_sample_file
    /\ Len(rd_file) = 4
    /\ FirstTwo(rd_file[1]) = FirstTwo(rd_file[2])
    /\ FirstTwo(rd_file[1]) = FirstTwo(rd_file[3])

RECURSIVE Sum(_)
Sum(s) == IF s = <<>> THEN 0 ELSE Head(s) + Sum(Tail(s))

\* C9: the buffer never holds more than MAX_SNPS_IN_BUFFER lines; every batch
\* handed to the parser has 1 to MAX_SNPS_IN_BUFFER rows and every batch but
\* the one written after the loop has exactly MAX_SNPS_IN_BUFFER; the batches
\* and the buffer hold the consumed lines once each, in order; an empty input
\* hands no batch to the parser.
C9_BoundedBuffer ==
    /\ Len(buffered_lines) =< MAX_SNPS_IN_BUFFER
    /\ \A i \in 1..Len(batches) : batches[i] \in 1..MAX_SNPS_IN_BUFFER
    /\ \A i \in 1..(Len(batches) - 1) : batches[i] = MAX_SNPS_IN_BUFFER
    /\ (pc \in {"loop", "check"} /\ err = "") =>
          \A i \in 1..Len(batches) : batches[i] = MAX_SNPS_IN_BUFFER
    /\ err = "" =>
          /\ Sum(batches) + Len(buffered_lines) = ip_pos
          /\ buffered_lines = SubSeq(gen_in, Sum(batches) + 1, ip_pos)
    /\ err # "" => Sum(batches) = ip_pos
    /\ gen_in = <<>> => batches = <<>>

\* C9 witness: the buffer holds a full batch that is about to be written
C9_Witness ==
    /\ pc = "check" /\ err = ""
    /\ Len(buffered_lines) = MAX_SNPS_IN_BUFFER
    /\ ip_pos = MAX_SNPS_IN_BUFFER

\* the run failed for an output identifier that no input sample has
FailsForUnknownTarget ==
    /\ TargetHasUnknown
    /\ err \notin {"", "UnmatchedSampleError", "MissingOutputDestinationError"}

\* C10 (as claimed): a run that fails for a duplicate identifier, an
\* unmatched input sample or an output identifier with no input sample has
\* not opened the output sample file and has written no genotype row; the
\* index array is built before any output.
C10_NoOutputBeforeResolution ==
    /\ (err \in {"DuplicateIdentifierError", "UnmatchedSampleError"}
          \/ FailsForUnknownTarget)
        => (~sample_out_opened /\ gen_out = <<>>)
    /\ sample_out_opened => IndexBuilt

\* C10 (amended): a run that fails for a duplicate identifier or an unmatched
\* input sample has not opened the output sample file and has written no
\* genotype row; a run that fails for an output identifier with no input
\* sample has opened the output sample file, has written nothing to it and
\* has written no genotype row; no genotype line is read or written before
\* the index array is built.
C10_NoGenotypeOutputBeforeResolution ==
    /\ err \in {"DuplicateIdentifierError", "UnmatchedSampleError"}
        => (~sample_out_opened /\ sample_out = <<>> /\ gen_out = <<>>
              /\ pc \in {"read_in", "read_new", "resolve"})
    /\ FailsForUnknownTarget
        => (sample_out_opened /\ sample_out = <<>> /\ gen_out = <<>>
              /\ pc = "write_sample")
    /\ (gen_out # <<>> \/ ip_pos > 0 \/ batches # <<>>)
        => (IndexBuilt /\ Len(index_array) = Len(new_sample_order))

\* C10 witness: with subsetting allowed, a run fails for an output identifier
\* that no input sample has, the output sample file open and empty
C10_Witness ==
    /\ FailsForUnknownTarget
    /\ sample_out_opened
    /\ opt_allow_subsetting
    /\ Len(input_sample_order) = 2

====
